---- MODULE Spec2Model ----
(***************************************************************************)
(* A model of github.com/mandykoh/autocrop (autocrop.go): the energy-based *)
(* crop of an NRGBA image.                                                 *)
(*                                                                         *)
(* Numbers.  The code computes in float32.  Here 1.0 is the integer Unit,  *)
(* so luminances, alphas and thresholds are hundredths and an energy (a    *)
(* luminance difference times an alpha) is in units of 1/Unit^2.  The      *)
(* comparison energies[i]/maxEnergy > threshold is decided exactly, with   *)
(* the IEEE results of a division by zero (NaN, +Inf) kept.                *)
(***************************************************************************)
EXTENDS Integers, Sequences, FiniteSets, TLC

\* The margin of an earlier version of the code.
bufferPixelsOld == 1

\* const bufferPixels = 2
bufferPixels == 2

\* 1.0 in the fixed-point representation of the code's float32 values.
Unit == 100

(***************************************************************************)
(* Bounds of the checked inputs.                                           *)
(***************************************************************************)
\* Largest width and height of the images with one arbitrary rectangle.
MaxDim == 4
\* Largest length of the striped images.
MaxStripes == 6
\* Largest side of the centred square of the framed images.
MaxSide == 6
\* Largest border width of the framed images.
MaxBorder == 3
\* Largest distance from the image's Min corner of the single pixels whose
\* energy is computed alone.
MaxOffset == 2

\* energyThreshold values tried, in hundredths: below 0, 0, 0.01, 0.5, 0.99,
\* 1 and above 1.
Thresholds == {0 - 50, 0, 1, 50, 99, 100, 150}

(***************************************************************************)
(* image.Rectangle and image.Point, as autocrop.go uses them.              *)
(***************************************************************************)
\* image.Rect(x0, y0, x1, y1): the coordinates are swapped where x0 > x1 or
\* y0 > y1, so that the result is well-formed.
Rect(x0, y0, x1, y1) ==
    [minX |-> IF x0 > x1 THEN x1 ELSE x0,
     minY |-> IF y0 > y1 THEN y1 ELSE y0,
     maxX |-> IF x0 > x1 THEN x0 ELSE x1,
     maxY |-> IF y0 > y1 THEN y0 ELSE y1]

\* The zero value image.Rectangle{}.
ZeroRect == [minX |-> 0, minY |-> 0, maxX |-> 0, maxY |-> 0]

Dx(r) == r.maxX - r.minX

Dy(r) == r.maxY - r.minY

\* Rectangle.Empty
Empty(r) == r.minX >= r.maxX \/ r.minY >= r.maxY

\* Rectangle.In: every point of r is in s.
In(r, s) ==
    \/ Empty(r)
    \/ /\ s.minX <= r.minX
       /\ r.maxX <= s.maxX
       /\ s.minY <= r.minY
       /\ r.maxY <= s.maxY

\* Rectangle.Intersect
Intersect(r, s) ==
    LET t == [minX |-> IF r.minX < s.minX THEN s.minX ELSE r.minX,
              minY |-> IF r.minY < s.minY THEN s.minY ELSE r.minY,
              maxX |-> IF r.maxX > s.maxX THEN s.maxX ELSE r.maxX,
              maxY |-> IF r.maxY > s.maxY THEN s.maxY ELSE r.maxY]
    IN  IF Empty(t) THEN ZeroRect ELSE t

\* (image.Point{x, y}).In(r)
PtIn(x, y, r) ==
    /\ r.minX <= x
    /\ x < r.maxX
    /\ r.minY <= y
    /\ y < r.maxY

\* The points of a rectangle.
Points(r) ==
    IF Empty(r) THEN {}
    ELSE (r.minX .. (r.maxX - 1)) \X (r.minY .. (r.maxY - 1))

(***************************************************************************)
(* *image.NRGBA: its Rect and its pixels, a color.NRGBA <<R, G, B, A>> at  *)
(* every point of Rect.                                                    *)
(***************************************************************************)
White == <<255, 255, 255, 255>>

Black == <<0, 0, 0, 255>>

Pink == <<228, 0, 140, 255>>

ClearWhite == <<255, 255, 255, 0>>

ClearBlack == <<0, 0, 0, 0>>

\* image.NewNRGBA(r): every pixel is the zero color.NRGBA.
NewNRGBA(r) == [Rect |-> r, Pix |-> [p \in Points(r) |-> ClearBlack]]

\* img.NRGBAAt(x, y): the zero colour outside img.Rect.
NRGBAAt(img, x, y) ==
    IF PtIn(x, y, img.Rect) THEN img.Pix[<<x, y>>] ELSE ClearBlack

\* draw.Draw(dst, r, src, sp, draw.Src): r is clipped to dst and to the part
\* of src that sp aligns with it, then every pixel of r is copied from src.
Draw(dst, r, src, sp) ==
    LET r1 == Intersect(r, dst.Rect)
        sb == [minX |-> src.Rect.minX + (r.minX - sp[1]),
               minY |-> src.Rect.minY + (r.minY - sp[2]),
               maxX |-> src.Rect.maxX + (r.minX - sp[1]),
               maxY |-> src.Rect.maxY + (r.minY - sp[2])]
        rc == Intersect(r1, sb)
    IN  [Rect |-> dst.Rect,
         Pix  |-> [p \in Points(dst.Rect) |->
                     IF PtIn(p[1], p[2], rc)
                     THEN NRGBAAt(src, sp[1] + (p[1] - r.minX),
                                       sp[2] + (p[2] - r.minY))
                     ELSE dst.Pix[p]]]

(***************************************************************************)
(* Colours (github.com/mandykoh/prism/srgb, through colourAt).             *)
(***************************************************************************)
\* The sRGB decoding of an 8-bit channel value to linear light, for the
\* channel values of the colours above.
Linear8(v) ==
    CASE v = 0   -> 0
      [] v = 140 -> 26
      [] v = 228 -> 78
      [] v = 255 -> Unit

\* srgb.Color.Luminance of the linearised colour.
Luminance(c) ==
    (2126 * Linear8(c[1]) + 7152 * Linear8(c[2]) + 722 * Linear8(c[3])) \div 10000

\* colourAt: the linear colour (here its luminance) and the alpha fraction
\* A/255 of the pixel at (x, y).
colourAt(img, x, y) ==
    LET c == NRGBAAt(img, x, y)
    IN  [lum |-> Luminance(c), alpha |-> (c[4] * Unit) \div 255]

\* luminance(c, alpha) = c.Luminance() + alpha
luminance(c) == c.lum + c.alpha

\* make([]float32, n) and the loop that fills it: the slice as a value, every
\* element computed once.
make(slice) == IF slice = slice THEN slice ELSE slice

\* luminancesAndAlphas: both slices, row by row over r, indexed from 0.
luminancesAndAlphas(img, r) ==
    LET n == Dx(r) * Dy(r)
        c == make([k \in 0 .. (n - 1) |->
                     colourAt(img, r.minX + (k % Dx(r)), r.minY + (k \div Dx(r)))])
    IN  [luminances |-> make([k \in 0 .. (n - 1) |-> luminance(c[k])]),
         alphas     |-> make([k \in 0 .. (n - 1) |-> c[k].alpha])]

Abs(v) == IF v < 0 THEN 0 - v ELSE v

\* The slice indices that energy reads for the pixel (x, y) of a buffer
\* `width` wide.
energyIndices(width, x, y) ==
    LET center == y * width + x
    IN  {center - width - 1, center - width, center - width + 1,
         center - 1, center, center + 1,
         center + width - 1, center + width, center + width + 1}

\* energy with the centre pixel's luminance counted on the west and north
\* sides.
energyWithCentre(luminances, alphas, width, x, y) ==
    LET center == y * width + x
        eX == luminances[center - width - 1] + luminances[center - 1]
              + luminances[center + width - 1] - luminances[center - width + 1]
              - luminances[center + 1] - luminances[center + width + 1]
              + luminances[center]
        eY == luminances[center - width - 1] + luminances[center - width]
              + luminances[center - width + 1] - luminances[center + width - 1]
              - luminances[center + width] - luminances[center + width + 1]
              + luminances[center]
    IN  (Abs(eX) + Abs(eY)) * alphas[center]

\* energy without the centre pixel's alpha.
energyIgnoringAlpha(luminances, alphas, width, x, y) ==
    LET center == y * width + x
        eX == luminances[center - width - 1] + luminances[center - 1]
              + luminances[center + width - 1] - luminances[center - width + 1]
              - luminances[center + 1] - luminances[center + width + 1]
        eY == luminances[center - width - 1] + luminances[center - width]
              + luminances[center - width + 1] - luminances[center + width - 1]
              - luminances[center + width] - luminances[center + width + 1]
    IN  (Abs(eX) + Abs(eY)) * Unit

\* energy: |west - east| + |north - south| of the neighbours' luminances,
\* times the centre pixel's alpha.
energy(luminances, alphas, width, x, y) ==
    LET center == y * width + x
        eX == luminances[center - width - 1] + luminances[center - 1]
              + luminances[center + width - 1] - luminances[center - width + 1]
              - luminances[center + 1] - luminances[center + width + 1]
        eY == luminances[center - width - 1] + luminances[center - width]
              + luminances[center - width + 1] - luminances[center + width - 1]
              - luminances[center + width] - luminances[center + width + 1]
    IN  (Abs(eX) + Abs(eY)) * alphas[center]

RECURSIVE SumOverButLast(_, _, _)
\* The sum without its last term.
SumOverButLast(f, lo, hi) ==
    IF lo >= hi THEN 0 ELSE f[lo] + SumOverButLast(f, lo + 1, hi)

RECURSIVE SumOver(_, _, _)
\* f[lo] + ... + f[hi]: the += of the loops of Energies.
SumOver(f, lo, hi) == IF lo > hi THEN 0 ELSE f[lo] + SumOver(f, lo + 1, hi)

\* Energies: the region grown by one pixel on each side, its luminances and
\* alphas, and the column and row totals of the energies of the region's
\* pixels.  cols and rows are sequences: the Go index i is i + 1 here.
\* panic: a slice index out of range.
Energies(img, r) ==
    LET luminanceBounds == [minX |-> r.minX - 1, minY |-> r.minY - 1,
                            maxX |-> r.maxX + 1, maxY |-> r.maxY + 1]
        la    == luminancesAndAlphas(img, luminanceBounds)
        width == Dx(luminanceBounds)
        len   == Dx(luminanceBounds) * Dy(luminanceBounds)
        cells == 0 .. (Dx(r) * Dy(r) - 1)
        bad   == \E p \in cells :
                    \E k \in energyIndices(width, (p % Dx(r)) + 1, (p \div Dx(r)) + 1) :
                        k < 0 \/ k >= len
        \* e[row * Dx(r) + col]: the energy of the pixel at (col, row) of r
        e     == make([p \in cells |->
                         energy(la.luminances, la.alphas, width,
                                (p % Dx(r)) + 1, (p \div Dx(r)) + 1)])
    IN  IF bad
        THEN [cols |-> <<>>, rows |-> <<>>, panic |-> TRUE]
        ELSE [cols  |-> make([col \in 1 .. Dx(r) |->
                           SumOver([row \in 0 .. (Dy(r) - 1) |-> e[row * Dx(r) + col - 1]],
                                   0, Dy(r) - 1)]),
              rows  |-> make([row \in 1 .. Dy(r) |->
                           SumOver([col \in 0 .. (Dx(r) - 1) |-> e[(row - 1) * Dx(r) + col]],
                                   0, Dx(r) - 1)]),
              panic |-> FALSE]

(***************************************************************************)
(* The boundary search.                                                    *)
(***************************************************************************)
\* energies[i]/maxEnergy > threshold in float32: 0/0 is NaN, which is
\* greater than nothing, and e/0 for e > 0 is +Inf.
exceeds(e, maxEnergy, threshold) ==
    IF maxEnergy = 0
    THEN e > 0
    ELSE IF maxEnergy > 0
         THEN e * Unit > threshold * maxEnergy
         ELSE e * Unit < threshold * maxEnergy

RECURSIVE findFirstLoopWith(_, _, _, _, _, _, _)
\* The leading scan with the margin `first` for a crossing at index 0 and
\* `later` for one after it.
findFirstLoopWith(energies, maxEnergy, threshold, i, bound, first, later) ==
    IF ~(i < Len(energies)) THEN bound
    ELSE IF exceeds(energies[i + 1], maxEnergy, threshold)
         THEN (IF i > 0 THEN i + later ELSE i + first)
         ELSE findFirstLoopWith(energies, maxEnergy, threshold, i + 1, bound + 1,
                                first, later)

\* findFirstEnergyBound without the margin.
findFirstEnergyBoundNoMargin(energies, maxEnergy, threshold) ==
    findFirstLoopWith(energies, maxEnergy, threshold, 0, 0, 0, 0)

\* findFirstEnergyBound with the margin added at index 0 too.
findFirstEnergyBoundAlwaysMargin(energies, maxEnergy, threshold) ==
    findFirstLoopWith(energies, maxEnergy, threshold, 0, 0, bufferPixels,
                      bufferPixels)

\* findFirstEnergyBound counting one position fewer when nothing exceeds the
\* threshold, as the scan from index 1 of an earlier version of the code did.
findFirstEnergyBoundSliver(energies, maxEnergy, threshold) ==
    findFirstLoopWith(energies, maxEnergy, threshold, 0, 0 - 1, 0, bufferPixels)

RECURSIVE findFirstLoop(_, _, _, _, _)
\* The loop of findFirstEnergyBound from index i, with bound counted so far.
findFirstLoop(energies, maxEnergy, threshold, i, bound) ==
    IF ~(i < Len(energies)) THEN bound
    ELSE IF exceeds(energies[i + 1], maxEnergy, threshold)
         THEN (IF i > 0 THEN i + bufferPixels ELSE i)
         ELSE findFirstLoop(energies, maxEnergy, threshold, i + 1, bound + 1)

findFirstEnergyBound(energies, maxEnergy, threshold) ==
    findFirstLoop(energies, maxEnergy, threshold, 0, 0)

RECURSIVE findLastLoopWith(_, _, _, _, _, _, _)
\* The trailing scan down to the index `stop` (exclusive), with the margin
\* `margin` for a crossing before the last index.
findLastLoopWith(energies, maxEnergy, threshold, stop, i, bound, margin) ==
    IF ~(i > stop) THEN bound
    ELSE IF exceeds(energies[i + 1], maxEnergy, threshold)
         THEN (IF i < Len(energies) - 1
               THEN Len(energies) - i - 1 + margin
               ELSE Len(energies) - i - 1)
         ELSE findLastLoopWith(energies, maxEnergy, threshold, stop, i - 1,
                               bound + 1, margin)

\* findLastEnergyBound scanning down to index 0 whatever the leading trim.
findLastEnergyBoundIgnoringFirst(energies, maxEnergy, threshold, firstBound) ==
    findLastLoopWith(energies, maxEnergy, threshold, 0 - 1, Len(energies) - 1, 0,
                     bufferPixels)

\* findLastEnergyBound without the margin.
findLastEnergyBoundNoMargin(energies, maxEnergy, threshold, firstBound) ==
    findLastLoopWith(energies, maxEnergy, threshold, firstBound + bufferPixels,
                     Len(energies) - 1, 0, 0)

RECURSIVE findLastLoop(_, _, _, _, _, _)
\* The loop of findLastEnergyBound from index i, with bound counted so far.
findLastLoop(energies, maxEnergy, threshold, firstBound, i, bound) ==
    IF ~(i > firstBound + bufferPixels) THEN bound
    ELSE IF exceeds(energies[i + 1], maxEnergy, threshold)
         THEN (IF i < Len(energies) - 1
               THEN Len(energies) - i - 1 + bufferPixels
               ELSE Len(energies) - i - 1)
         ELSE findLastLoop(energies, maxEnergy, threshold, firstBound, i - 1, bound + 1)

findLastEnergyBound(energies, maxEnergy, threshold, firstBound) ==
    findLastLoop(energies, maxEnergy, threshold, firstBound, Len(energies) - 1, 0)

RECURSIVE findMaxLoop(_, _, _)
findMaxLoop(energies, i, max) ==
    IF ~(i < Len(energies)) THEN max
    ELSE findMaxLoop(energies, i + 1,
                     IF energies[i + 1] > max THEN energies[i + 1] ELSE max)

\* findMaxEnergy reads energies[0]: the slice is never empty where it is
\* called.
findMaxEnergy(energies) == findMaxLoop(energies, 1, energies[1])

(***************************************************************************)
(* BoundsForThreshold and ToThreshold.                                     *)
(***************************************************************************)
\* energyCrop without the margin of one pixel.
energyCropNoMargin(img) == img.Rect

\* energyCrop: the image bounds less one pixel on each side.
energyCrop(img) ==
    [minX |-> img.Rect.minX + 1, minY |-> img.Rect.minY + 1,
     maxX |-> img.Rect.maxX - 1, maxY |-> img.Rect.maxY - 1]

\* The four trims that BoundsForThreshold applies, from the two projections.
trims(en, energyThreshold) ==
    LET maxCol     == findMaxEnergy(en.cols)
        cropLeft   == findFirstEnergyBound(en.cols, maxCol, energyThreshold)
        cropRight  == findLastEnergyBound(en.cols, maxCol, energyThreshold, cropLeft)
        maxRow     == findMaxEnergy(en.rows)
        cropTop    == findFirstEnergyBound(en.rows, maxRow, energyThreshold)
        cropBottom == findLastEnergyBound(en.rows, maxRow, energyThreshold, cropTop)
    IN  [left |-> cropLeft, right |-> cropRight,
         top |-> cropTop, bottom |-> cropBottom]

\* BoundsForThreshold: the returned rectangle, with whether Energies was
\* called, the projections it returned and whether the call panicked (then
\* nothing is returned).
BoundsForThreshold(img, energyThreshold) ==
    IF Empty(energyCrop(img))
    THEN [crop |-> img.Rect, energies |-> FALSE, panic |-> FALSE,
          cols |-> <<>>, rows |-> <<>>]
    ELSE LET en == Energies(img, energyCrop(img))
         IN  IF en.panic
             THEN [crop |-> ZeroRect, energies |-> TRUE, panic |-> TRUE,
                   cols |-> <<>>, rows |-> <<>>]
             ELSE LET t == trims(en, energyThreshold)
                  IN  [crop     |-> [minX |-> img.Rect.minX + t.left,
                                     minY |-> img.Rect.minY + t.top,
                                     maxX |-> img.Rect.maxX - t.right,
                                     maxY |-> img.Rect.maxY - t.bottom],
                       energies |-> TRUE,
                       panic    |-> FALSE,
                       cols     |-> en.cols,
                       rows     |-> en.rows]

\* ToThreshold drawing from the image's corner instead of the crop's.
ToThresholdFromCorner(img, energyThreshold) ==
    LET b == BoundsForThreshold(img, energyThreshold)
        resultImg == NewNRGBA(Rect(0, 0, Dx(b.crop), Dy(b.crop)))
    IN  [crop      |-> b.crop,
         energies  |-> b.energies,
         panic     |-> b.panic,
         cols      |-> b.cols,
         rows      |-> b.rows,
         resultImg |-> Draw(resultImg, resultImg.Rect, img,
                            <<img.Rect.minX, img.Rect.minY>>)]

\* ToThreshold: a new image of the crop's size, drawn from img at crop.Min.
ToThreshold(img, energyThreshold) ==
    LET b == BoundsForThreshold(img, energyThreshold)
        resultImg == NewNRGBA(Rect(0, 0, Dx(b.crop), Dy(b.crop)))
    IN  [crop      |-> b.crop,
         energies  |-> b.energies,
         panic     |-> b.panic,
         cols      |-> b.cols,
         rows      |-> b.rows,
         resultImg |-> IF b.panic THEN NewNRGBA(ZeroRect)
                       ELSE Draw(resultImg, resultImg.Rect, img,
                                 <<b.crop.minX, b.crop.minY>>)]

(***************************************************************************)
(* The images checked.                                                     *)
(***************************************************************************)
\* An image over rect: the colour fg inside the rectangle fr, and outside it
\* bg[1] on the points of even x + y and bg[2] on the others.
RectImage(rect, bg, fg, fr) ==
    [Rect |-> rect,
     Pix  |-> [p \in Points(rect) |->
                 IF PtIn(p[1], p[2], fr) THEN fg
                 ELSE IF (p[1] + p[2]) % 2 = 0 THEN bg[1] ELSE bg[2]]]

\* The image of w x h pixels at the origin o, of colour bg but for a
\* rectangle (possibly empty) of colour fg.
General(o, w, h, bg, fg, x0, y0, x1, y1) ==
    RectImage(Rect(o[1], o[2], o[1] + w, o[2] + h), <<bg, bg>>, fg,
              Rect(o[1] + x0, o[2] + y0, o[1] + x1, o[2] + y1))

\* The image of l x 3 pixels whose column x is of the colour s[x], or its
\* transpose.
Striped(s, l, transposed) ==
    IF transposed
    THEN [Rect |-> Rect(0, 0, 3, l),
          Pix  |-> [p \in Points(Rect(0, 0, 3, l)) |-> s[p[2]]]]
    ELSE [Rect |-> Rect(0, 0, l, 3),
          Pix  |-> [p \in Points(Rect(0, 0, l, 3)) |-> s[p[1]]]]

\* A square of colour fg, of side s, centred with a border b wide of the
\* background bg on every side.
Framed(s, b, bg, fg) ==
    RectImage(Rect(0, 0, s + 2 * b, s + 2 * b), bg, fg, Rect(b, b, b + s, b + s))

\* The backgrounds of the Framed images: an opaque one, a transparent one and
\* a transparent one of mixed colours.
Backgrounds ==
    {<<White, White>>, <<ClearWhite, ClearWhite>>, <<ClearWhite, ClearBlack>>}

\* The origins and colours <<o, bg, fg>> of the General images.
GeneralKinds ==
    {<<<<3, 2>>, White, Black>>, <<<<0, 0>>, White, ClearBlack>>,
     <<<<0, 0>>, ClearBlack, Black>>}

\* The images the calls are checked on: every General image of up to
\* MaxDim x MaxDim pixels (the sizes 0, 1 and 2 are the degenerate ones),
\* every Striped image of up to MaxStripes stripes, and the Framed images
\* with a square of up to MaxSide pixels and a border of up to MaxBorder
\* pixels, or of the 5 pixels of the test image.
IsInput(i) ==
    \/ \E k \in GeneralKinds, w \in 0 .. MaxDim, h \in 0 .. MaxDim :
          \E x0 \in 0 .. w, y0 \in 0 .. h :
             \E x1 \in x0 .. w, y1 \in y0 .. h :
                 i = General(k[1], w, h, k[2], k[3], x0, y0, x1, y1)
    \/ \E l \in 3 .. MaxStripes :
          \E s \in [0 .. (l - 1) -> {White, Black, ClearBlack}] :
             \E transposed \in BOOLEAN :
                 i = Striped(s, l, transposed)
    \/ \E s \in 1 .. MaxSide, b \in (1 .. MaxBorder) \cup {5} :
          \E bg \in Backgrounds, fg \in {Pink, Black} :
              i = Framed(s, b, bg, fg)

(***************************************************************************)
(* The state: the caller's image and what its last call returned.          *)
(***************************************************************************)
VARIABLES
    img,            \* the *image.NRGBA passed to the calls
    op,             \* the last call: "none", "BoundsForThreshold", "ToThreshold",
                    \* "Energies"
    threshold,      \* its energyThreshold, in hundredths
    crop,           \* the rectangle BoundsForThreshold returned
    resultImg,      \* the image ToThreshold returned
    colEnergies,    \* the column energies the call computed, if it did
    rowEnergies,    \* the row energies the call computed, if it did
    energiesCalled, \* whether the call computed the energies
    panicked,       \* whether the call panicked
    region          \* the region r passed to a call of Energies by the caller

vars == <<img, op, threshold, crop, resultImg, colEnergies, rowEnergies,
          energiesCalled, panicked, region>>

Init ==
    /\ IsInput(img)
    /\ op = "none"
    /\ threshold = 0
    /\ crop = ZeroRect
    /\ resultImg = NewNRGBA(ZeroRect)
    /\ colEnergies = <<>>
    /\ rowEnergies = <<>>
    /\ energiesCalled = FALSE
    /\ panicked = FALSE
    /\ region = ZeroRect

\* The next threshold of the caller's list after t.
IsNextThreshold(u, t) ==
    /\ u \in Thresholds
    /\ u > t
    /\ \A v \in Thresholds : v > t => u <= v

\* result := BoundsForThreshold(img, t): the caller's first call, or its call
\* with the next higher threshold, as in the loop of the test "returns
\* increasingly cropped images for higher thresholds".
CallBoundsForThreshold(t) ==
    /\ op = "none" \/ (op = "BoundsForThreshold" /\ IsNextThreshold(t, threshold))
    /\ \E b \in {BoundsForThreshold(img, t)} :
           /\ op' = "BoundsForThreshold"
           /\ threshold' = t
           /\ crop' = b.crop
           /\ resultImg' = NewNRGBA(ZeroRect)
           /\ colEnergies' = b.cols
           /\ rowEnergies' = b.rows
           /\ energiesCalled' = b.energies
           /\ panicked' = b.panic
           /\ UNCHANGED <<img, region>>

\* result := ToThreshold(img, t)
CallToThreshold(t) ==
    /\ op = "none"
    /\ \E b \in {ToThreshold(img, t)} :
           /\ op' = "ToThreshold"
           /\ threshold' = t
           /\ crop' = b.crop
           /\ resultImg' = b.resultImg
           /\ colEnergies' = b.cols
           /\ rowEnergies' = b.rows
           /\ energiesCalled' = b.energies
           /\ panicked' = b.panic
           /\ UNCHANGED <<img, region>>

\* The regions the caller passes to Energies: the image bounds moved in or
\* out by up to one pixel at the Min corner and in at the Max corner (the
\* interior that BoundsForThreshold passes among them), and the single pixels
\* of the image up to MaxOffset pixels from its Min corner.
Regions(i) ==
    {[minX |-> i.Rect.minX + lo, minY |-> i.Rect.minY + lo,
      maxX |-> i.Rect.maxX - hi, maxY |-> i.Rect.maxY - hi] :
        lo \in (0 - 1) .. 1, hi \in 0 .. 1}
    \cup
    {[minX |-> i.Rect.minX + d[1], minY |-> i.Rect.minY + d[2],
      maxX |-> i.Rect.minX + d[1] + 1, maxY |-> i.Rect.minY + d[2] + 1] :
        d \in {e \in (0 .. MaxOffset) \X (0 .. MaxOffset) :
                  e[1] < Dx(i.Rect) /\ e[2] < Dy(i.Rect)}}

\* cols, rows := Energies(img, r) for a region that is not empty.
CallEnergies(r) ==
    /\ op = "none"
    /\ ~Empty(r)
    /\ \E en \in {Energies(img, r)} :
           /\ op' = "Energies"
           /\ region' = r
           /\ colEnergies' = en.cols
           /\ rowEnergies' = en.rows
           /\ energiesCalled' = TRUE
           /\ panicked' = en.panic
           /\ UNCHANGED <<img, threshold, crop, resultImg>>

Next ==
    \/ \E t \in Thresholds : CallBoundsForThreshold(t)
    \/ \E t \in Thresholds : CallToThreshold(t)
    \/ \E r \in Regions(img) : CallEnergies(r)

Spec == Init /\ [][Next]_vars

(***************************************************************************)
(* What the claims speak of.                                               *)
(***************************************************************************)
\* The number of columns and rows the returned rectangle leaves out on each
\* side of the image.
trimLeft == crop.minX - img.Rect.minX

trimTop == crop.minY - img.Rect.minY

trimRight == img.Rect.maxX - crop.maxX

trimBottom == img.Rect.maxY - crop.maxY

\* BoundsForThreshold has returned to its caller.
Returned == op = "BoundsForThreshold" /\ ~panicked

\* Every pixel of the image is of one colour, fully opaque.
IsUniformOpaque(i) ==
    \A p \in DOMAIN i.Pix : \A q \in DOMAIN i.Pix :
        i.Pix[p] = i.Pix[q] /\ i.Pix[p][4] = 255

(***************************************************************************)
(* C1.  Monotonicity: for a fixed image and thresholds t1 < t2 in [0, 1],  *)
(* the rectangle BoundsForThreshold returns for t2 is contained in (or     *)
(* equal to) the one it returns for t1.  Stated on two successive calls of *)
(* the caller's sweep.  The code violates it.                              *)
(***************************************************************************)
C1_Monotone ==
    [][(/\ Returned
        /\ Returned'
        /\ 0 <= threshold
        /\ threshold < threshold'
        /\ threshold' <= Unit)
       => In(crop', crop)]_vars

(***************************************************************************)
(* C2.  Plain-background crop: for a uniform opaque square of side at      *)
(* least 4 centred on a uniform opaque background of another luminance     *)
(* with a border of 5 pixels on every side, BoundsForThreshold with the    *)
(* threshold 0.01 returns exactly the square's rectangle: its width and    *)
(* height are the square's side and every pixel in it is of the square's   *)
(* colour.                                                                 *)
(***************************************************************************)
C2_PlainBackgroundCrop ==
    \A s \in 4 .. MaxSide : \A fg \in {Pink, Black} :
        (Returned /\ threshold = 1 /\ img = Framed(s, 5, <<White, White>>, fg))
        => /\ crop = Rect(5, 5, 5 + s, 5 + s)
           /\ Dx(crop) = s
           /\ Dy(crop) = s
           /\ \A p \in Points(crop) : NRGBAAt(img, p[1], p[2]) = fg

C2_Witness ==
    /\ Returned
    /\ threshold = 1
    /\ img = Framed(4, 5, <<White, White>>, Pink)
    /\ crop = Rect(5, 5, 9, 9)

(***************************************************************************)
(* C3.  Degenerate-input guard: for an image of width <= 2 or height <= 2  *)
(* (the empty and the 1x1 image among them) BoundsForThreshold returns the *)
(* image's bounds unchanged for every threshold, without computing the     *)
(* energies and without failing.                                           *)
(***************************************************************************)
C3_DegenerateGuard ==
    (op = "BoundsForThreshold" /\ (Dx(img.Rect) <= 2 \/ Dy(img.Rect) <= 2))
    => /\ crop = img.Rect
       /\ ~energiesCalled
       /\ ~panicked

C3_Witness ==
    /\ op = "BoundsForThreshold"
    /\ Dx(img.Rect) = 1
    /\ Dy(img.Rect) = 1
    /\ threshold = 99
    /\ crop = img.Rect

(***************************************************************************)
(* C4.  Uniform-content invariance: for an image of one colour and full    *)
(* alpha, of any size, and every threshold in (0, 1], BoundsForThreshold   *)
(* returns the image's full bounds.  The code violates it from 3x3 on: the *)
(* maximum energy is 0, every quotient is NaN and the leading scan counts  *)
(* every position into the trim.                                           *)
(***************************************************************************)
C4_UniformUncropped ==
    (Returned /\ 0 < threshold /\ threshold <= Unit /\ IsUniformOpaque(img))
    => crop = img.Rect

\* The image is the Framed one with a border b wide of bg around a square of
\* colour fg.
IsFramed(b, bg, fg) ==
    /\ Dx(img.Rect) - 2 * b >= 1
    /\ img = Framed(Dx(img.Rect) - 2 * b, b, bg, fg)

\* The border widths of the Framed images.
Borders == (1 .. MaxBorder) \cup {5}

\* The fully transparent backgrounds.
ClearBackgrounds == {<<ClearWhite, ClearWhite>>, <<ClearWhite, ClearBlack>>}

\* The returned rectangle leaves out every column and row of the border b
\* wide.
ExcludesBorder(b) ==
    /\ ~Empty(crop)
    /\ img.Rect.minX + b <= crop.minX
    /\ crop.maxX <= img.Rect.maxX - b
    /\ img.Rect.minY + b <= crop.minY
    /\ crop.maxY <= img.Rect.maxY - b

C6_ValidCrop ==
    (op \in {"BoundsForThreshold", "ToThreshold"}
     /\ Dx(img.Rect) >= 3 /\ Dy(img.Rect) >= 3)
    => /\ ~panicked
       /\ In(crop, img.Rect)
       /\ Dx(crop) >= 1
       /\ Dy(crop) >= 1
       /\ trimLeft >= 0 /\ trimRight >= 0 /\ trimTop >= 0 /\ trimBottom >= 0
       /\ trimLeft + trimRight < Dx(img.Rect)
       /\ trimTop + trimBottom < Dy(img.Rect)

\* The leading trim leaves a single column and a single row of an image of
\* at least 4 x 4 pixels, and the trailing scans stop short of them.
C6_Witness ==
    /\ Returned
    /\ Dx(img.Rect) >= 4
    /\ Dy(img.Rect) >= 4
    /\ Dx(crop) = 1
    /\ Dy(crop) = 1

(***************************************************************************)
(* C7.  ToThreshold materialises the computed bounds: the image it returns *)
(* has the bounds (0,0)-(crop.Dx(), crop.Dy()) and its pixel at (x, y) is  *)
(* the source pixel at (crop.Min.X + x, crop.Min.Y + y), where crop is what *)
(* BoundsForThreshold returned to it.                                      *)
(***************************************************************************)
C7_ToThresholdCopiesCrop ==
    (op = "ToThreshold" /\ ~panicked)
    => /\ resultImg.Rect = [minX |-> 0, minY |-> 0,
                            maxX |-> Dx(crop), maxY |-> Dy(crop)]
       /\ DOMAIN resultImg.Pix = Points(resultImg.Rect)
       /\ \A p \in Points(resultImg.Rect) :
             resultImg.Pix[p] = NRGBAAt(img, crop.minX + p[1], crop.minY + p[2])

\* A crop away from the image's corner, of pixels of more than one colour.
C7_Witness ==
    /\ op = "ToThreshold"
    /\ crop.minX > img.Rect.minX
    /\ crop.minY > img.Rect.minY
    /\ img.Rect.minX > 0
    /\ \E p \in DOMAIN resultImg.Pix : \E q \in DOMAIN resultImg.Pix :
           resultImg.Pix[p] # resultImg.Pix[q]

Last(energies) == energies[Len(energies)]

\* The projection has a single largest entry, greater than 0, at the Go
\* index p, and no other entry's quotient by it exceeds the threshold t.
IsLonePeak(energies, p, t) ==
    /\ p + 1 \in DOMAIN energies
    /\ energies[p + 1] > 0
    /\ \A j \in DOMAIN energies :
          j # p + 1
          => /\ energies[j] < energies[p + 1]
             /\ ~exceeds(energies[j], energies[p + 1], t)

(***************************************************************************)
(* C8.  Symmetric content crops symmetrically: for a centred square of any *)
(* size on a uniform background and every threshold in (0, 1), the left    *)
(* and right trims differ by at most 1, and so do the top and bottom       *)
(* trims.  This fails for small squares.                                   *)
(***************************************************************************)
C8_SymmetricCrop ==
    (Returned /\ 0 < threshold /\ threshold < Unit)
    => \A b \in Borders, fg \in {Pink, Black} :
          IsFramed(b, <<White, White>>, fg)
          => /\ Abs(trimLeft - trimRight) <= 1
             /\ Abs(trimTop - trimBottom) <= 1

(***************************************************************************)
(* C8, amended: the same for a centred square of side at least 6 on a      *)
(* uniform opaque background.                                              *)
(***************************************************************************)
C8_SymmetricCropOfLargeSquare ==
    (Returned /\ 0 < threshold /\ threshold < Unit)
    => \A b \in Borders, fg \in {Pink, Black} :
          (IsFramed(b, <<White, White>>, fg) /\ Dx(img.Rect) - 2 * b >= 6)
          => /\ Abs(trimLeft - trimRight) <= 1
             /\ Abs(trimTop - trimBottom) <= 1

C8_Witness ==
    /\ Returned
    /\ threshold = 99
    /\ IsFramed(2, <<White, White>>, Pink)
    /\ Dx(img.Rect) = 10
    /\ trimLeft = 3
    /\ trimRight = 3
    /\ trimTop = 3
    /\ trimBottom = 3

C10_PeakRetained ==
    (Returned /\ energiesCalled /\ threshold < Unit)
    => /\ \A p \in 0 .. (Len(colEnergies) - 1) :
             IsLonePeak(colEnergies, p, threshold)
             => /\ crop.minX <= img.Rect.minX + 1 + p
                /\ img.Rect.minX + 1 + p < crop.maxX
       /\ \A p \in 0 .. (Len(rowEnergies) - 1) :
             IsLonePeak(rowEnergies, p, threshold)
             => /\ crop.minY <= img.Rect.minY + 1 + p
                /\ img.Rect.minY + 1 + p < crop.maxY

(***************************************************************************)
(* C10, amended: for such a projection and threshold, with the peak at the *)
(* index p of the projection (the image column or row p + 1), the leading  *)
(* trim is 0 when p = 0 and p + bufferPixels otherwise, and nothing above  *)
(* the threshold is left for the trailing scan; so the returned rectangle  *)
(* contains the peak's column or row when p = 0 and begins one past it     *)
(* otherwise.                                                              *)
(***************************************************************************)
C10_PeakTrimmedUnlessFirst ==
    (Returned /\ energiesCalled /\ threshold < Unit)
    => /\ \A p \in 0 .. (Len(colEnergies) - 1) :
             IsLonePeak(colEnergies, p, threshold)
             => /\ trimLeft = (IF p = 0 THEN 0 ELSE p + bufferPixels)
                /\ p = 0 => (crop.minX <= img.Rect.minX + 1
                             /\ img.Rect.minX + 1 < crop.maxX)
                /\ p > 0 => crop.minX = img.Rect.minX + 1 + p + 1
       /\ \A p \in 0 .. (Len(rowEnergies) - 1) :
             IsLonePeak(rowEnergies, p, threshold)
             => /\ trimTop = (IF p = 0 THEN 0 ELSE p + bufferPixels)
                /\ p = 0 => (crop.minY <= img.Rect.minY + 1
                             /\ img.Rect.minY + 1 < crop.maxY)
                /\ p > 0 => crop.minY = img.Rect.minY + 1 + p + 1

\* A lone peak in the middle of the column projection, trimmed away with the
\* columns before it.
C10_Witness ==
    /\ Returned
    /\ energiesCalled
    /\ threshold = 99
    /\ Len(colEnergies) >= 3
    /\ IsLonePeak(colEnergies, 1, threshold)
    /\ \E j \in DOMAIN colEnergies : j # 2 /\ colEnergies[j] > 0
    /\ trimLeft = 3

\* The alpha fraction A/255 of the pixel at (x, y) of the image i.
AlphaAt(i, x, y) == (NRGBAAt(i, x, y)[4] * Unit) \div 255

\* The luminance value of the pixel at (x, y) of the image i: the luminance
\* of its colour plus its alpha fraction.
LuminanceValueAt(i, x, y) == Luminance(NRGBAAt(i, x, y)) + AlphaAt(i, x, y)

\* The energy of the pixel at (x, y) of the image i, from its eight
\* neighbours in the image: (|(NW + W + SW) - (NE + E + SE)| +
\* |(NW + N + NE) - (SW + S + SE)|) times the pixel's alpha fraction.
KernelEnergy(i, x, y) ==
    LET nw == LuminanceValueAt(i, x - 1, y - 1)
        n  == LuminanceValueAt(i, x, y - 1)
        ne == LuminanceValueAt(i, x + 1, y - 1)
        w  == LuminanceValueAt(i, x - 1, y)
        e  == LuminanceValueAt(i, x + 1, y)
        sw == LuminanceValueAt(i, x - 1, y + 1)
        so == LuminanceValueAt(i, x, y + 1)
        se == LuminanceValueAt(i, x + 1, y + 1)
    IN  (Abs((nw + w + sw) - (ne + e + se)) + Abs((nw + n + ne) - (sw + so + se)))
        * AlphaAt(i, x, y)

RECURSIVE SeqSum(_)
\* The total of a sequence of numbers.
SeqSum(seq) == IF seq = <<>> THEN 0 ELSE Head(seq) + SeqSum(Tail(seq))

WithPixel(i, x, y, c) ==
    [Rect |-> i.Rect, Pix |-> [p \in DOMAIN i.Pix |->
                                 IF p = <<x, y>> THEN c ELSE i.Pix[p]]]

\* The pixel at (x, y) and its eight neighbours are in the image i.
HasAllNeighbours(i, x, y) ==
    /\ PtIn(x - 1, y - 1, i.Rect)
    /\ PtIn(x + 1, y + 1, i.Rect)

\* Energies was called for the single pixel at region.Min, which has all its
\* neighbours: cols[0] and rows[0] are what energy returned for it.
EnergyOfPixel ==
    /\ op = "Energies"
    /\ ~panicked
    /\ Dx(region) = 1
    /\ Dy(region) = 1
    /\ HasAllNeighbours(img, region.minX, region.minY)

(***************************************************************************)
(* C12.  Per-pixel energy: for a pixel P with all 8 neighbours, energy(P)  *)
(* is (|(NW + W + SW) - (NE + E + SE)| + |(NW + N + NE) - (SW + S + SE)|)  *)
(* times P's own alpha fraction, each term being the neighbour's luminance *)
(* value; the centre pixel's luminance is not used (another colour of the  *)
(* same alpha at P gives the same energy), and a pixel of alpha 0 has the  *)
(* energy 0 whatever its neighbours.                                       *)
(***************************************************************************)
C12_PixelEnergy ==
    EnergyOfPixel
    => /\ colEnergies = <<KernelEnergy(img, region.minX, region.minY)>>
       /\ rowEnergies = colEnergies
       /\ AlphaAt(img, region.minX, region.minY) = 0 => colEnergies[1] = 0
       /\ \A c \in {White, Black, Pink, ClearWhite, ClearBlack} :
             c[4] = NRGBAAt(img, region.minX, region.minY)[4]
             => Energies(WithPixel(img, region.minX, region.minY, c), region).cols
                  = colEnergies

\* An opaque pixel with a transparent neighbour and both gradients not 0:
\* its energy is greater than 0.
C12_Witness ==
    /\ EnergyOfPixel
    /\ NRGBAAt(img, region.minX, region.minY)[4] = 255
    /\ NRGBAAt(img, region.minX - 1, region.minY - 1)[4] = 0
    /\ LuminanceValueAt(img, region.minX - 1, region.minY)
          # LuminanceValueAt(img, region.minX + 1, region.minY)
    /\ LuminanceValueAt(img, region.minX, region.minY - 1)
          # LuminanceValueAt(img, region.minX, region.minY + 1)
    /\ colEnergies[1] > 0

\* A transparent pixel between neighbours of different luminance values: its
\* energy is 0.
C12_TransparentWitness ==
    /\ EnergyOfPixel
    /\ AlphaAt(img, region.minX, region.minY) = 0
    /\ LuminanceValueAt(img, region.minX - 1, region.minY)
          # LuminanceValueAt(img, region.minX + 1, region.minY)
    /\ colEnergies[1] = 0

\* No position of the projection has a normalized energy above the threshold t.
NoneExceeds(energies, t) ==
    \A j \in DOMAIN energies :
        ~exceeds(energies[j], findMaxEnergy(energies), t)

(***************************************************************************)
(* C13.  No position above the threshold: for a projection of length n in  *)
(* which no position's normalized energy exceeds the threshold, the        *)
(* leading trim that findFirstEnergyBound returns is n - 1, without the    *)
(* margin.  This fails: the trim is n.                                     *)
(***************************************************************************)
C13_LeadingTrimIsLengthLessOne ==
    (Returned /\ energiesCalled)
    => /\ NoneExceeds(colEnergies, threshold)
          => trimLeft = Len(colEnergies) - 1
       /\ NoneExceeds(rowEnergies, threshold)
          => trimTop = Len(rowEnergies) - 1

(***************************************************************************)
(* C13, amended: for such a projection the leading trim is n, the length   *)
(* of the projection, without the margin: the scan counts every position,  *)
(* and the image's last two columns (or rows) are left.  The trailing scan *)
(* then has nothing to look at and trims 0.                                *)
(***************************************************************************)
C13_LeadingTrimIsLength ==
    (Returned /\ energiesCalled)
    => /\ NoneExceeds(colEnergies, threshold)
          => /\ trimLeft = Len(colEnergies)
             /\ trimRight = 0
             /\ Dx(crop) = 2
       /\ NoneExceeds(rowEnergies, threshold)
          => /\ trimTop = Len(rowEnergies)
             /\ trimBottom = 0
             /\ Dy(crop) = 2

\* A projection of several columns with energy, none above the threshold 1.
C13_Witness ==
    /\ Returned
    /\ energiesCalled
    /\ threshold = Unit
    /\ Len(colEnergies) >= 4
    /\ findMaxEnergy(colEnergies) > 0
    /\ NoneExceeds(colEnergies, threshold)
    /\ trimLeft = Len(colEnergies)

====
